---- MODULE Spec2Model ----
(***************************************************************************)
(* A model of the rental-property search service:                          *)
(*   src/main.py                            startup, the query compiler,   *)
(*                                          the search and stats handlers  *)
(*   src/services/elasticsearch_service.py  index creation with retry and  *)
(*                                          the recommendation engine      *)
(* The document store is the environment: it may be reachable or not, and  *)
(* a call to it may fail.                                                  *)
(***************************************************************************)
EXTENDS Integers, Sequences, FiniteSets, TLC

VARIABLES
    GOOGLE_CLOUD_INITIALIZED,   \* main.py:139
    ELASTICSEARCH_INITIALIZED,  \* main.py:140
    sync_client,                \* es_service.sync_client
    started,                    \* startup_event has run
    storeUp,                    \* environment: the store answers
    catalog,                    \* environment: the property index, _id -> _source
    compiled,                   \* the last call of build_elasticsearch_query
    response,                   \* the last answer of a request handler
    store_log,                  \* the store calls of the last handler run
    rec,                        \* the running get_property_recommendations call
    indices,                    \* environment: per index, how often it was created
    caller,                     \* per caller: the running index-creation call
    remembered,                 \* an earlier call of build_elasticsearch_query
    embed,                      \* the last call of generate_real_embedding
    config,                     \* the last construction of a settings object
    bulk,                       \* the last call of bulk_index_properties
    conversations,              \* environment: the conversations index
    history,                    \* the last call of get_conversation_history
    req,                        \* the search request being served, step by step
    conn                        \* the last call of ElasticsearchService.connect

auxVars == <<embed, config, bulk, conversations, history, req, conn>>

vars == <<GOOGLE_CLOUD_INITIALIZED, ELASTICSEARCH_INITIALIZED, sync_client,
          started, storeUp, catalog, compiled, response, store_log, rec,
          indices, caller, remembered, auxVars>>

searchVars == <<GOOGLE_CLOUD_INITIALIZED, ELASTICSEARCH_INITIALIZED,
                sync_client, started, storeUp, compiled, response, store_log,
                remembered>>

None == "None"

(***************************************************************************)
(* The catalog.  A document is its _source; Absent marks an _id that holds *)
(* no document.                                                            *)
(***************************************************************************)
Ids == {"p1", "p2", "p3"}

Absent == [property_id |-> "", property_status |-> "", embedding |-> None]

Statuses == {"available", "sold"}

Embeddings == {None, "vec"}

Docs == [property_id : Ids, property_status : Statuses, embedding : Embeddings]

Present(cat) == {i \in DOMAIN cat : cat[i] # Absent}

EmptyCatalog == [i \in Ids |-> Absent]

SampleCatalog ==
    [i \in Ids |-> [property_id |-> i, property_status |-> "available",
                    embedding |-> "vec"]]

\* A catalog written by another ingestion: its _ids are not the documents'
\* property_id fields.
ForeignCatalog ==
    [i \in Ids |-> [property_id |-> "p2", property_status |-> "available",
                    embedding |-> "vec"]]

\* The sequences without repetition over S, of length at most n.
RECURSIVE SeqsUpTo(_, _)
SeqsUpTo(S, n) ==
    IF n = 0 \/ S = {} THEN {<<>>}
    ELSE {<<>>} \cup UNION {{<<x>> \o t : t \in SeqsUpTo(S \ {x}, n - 1)} : x \in S}

Min(a, b) == IF a < b THEN a ELSE b

(***************************************************************************)
(* The query compiler, main.py:238-320.  Boosts are kept in tenths         *)
(* (1.5 is 15), the model having no decimals.                              *)
(***************************************************************************)
MultiMatch(query) ==
    [clause |-> "multi_match", query |-> query,
     fields |-> <<"name^3", "description^2", "property_type^2", "city^2",
                  "area", "amenities">>,
     type |-> "best_fields", fuzziness |-> "AUTO"]

Match(field, query, boost10) ==
    [clause |-> "match", field |-> field, query |-> query, boost10 |-> boost10]

\* A compiler whose base dict is one module-level object: the clauses the
\* last compilation appended to it are still there.
base_query_shared(query) ==
    [should |-> <<MultiMatch(query), Match("combined_text", query, 15)>> \o
                SubSeq(compiled.es_query.should, 3,
                       Len(compiled.es_query.should)),
     minimum_should_match |-> 1]

\* A compiler that leaves out the combined-text clause.
base_query_no_combined_text(query) ==
    [should |-> <<MultiMatch(query)>>, minimum_should_match |-> 1]

\* main.py:241-263, the dict every call builds anew.
base_query(query) ==
    [should |-> <<MultiMatch(query), Match("combined_text", query, 15)>>,
     minimum_should_match |-> 1]

\* A semantic branch of two clauses.
semantic_clauses_two(query) ==
    <<Match("target_audience", query, 25),
      Match("special_features", query, 15)>>

\* main.py:265-292
semantic_clauses(query) ==
    <<Match("target_audience", query, 25),
      Match("special_features", query, 15),
      Match("platform_focus", query, 12)>>

\* A hybrid branch that outranks the semantic one.
hybrid_clauses_boosted(query) ==
    <<Match("target_audience", query, 30),
      Match("special_features", query, 15)>>

\* A hybrid branch that adds nothing.
hybrid_clauses_none(query) == <<>>

hybrid_clauses(query) ==
    <<Match("target_audience", query, 20),
      Match("special_features", query, 15)>>

\* A compiler that augments whatever the capability flag says.
branch_ignoring_flag(search_type, ai) ==
    IF search_type = "semantic" THEN "semantic"
    ELSE IF search_type = "hybrid" THEN "hybrid"
    ELSE "keyword"

\* The branch the compiler takes (the strategy its log line names).
branch(search_type, ai) ==
    IF search_type = "semantic" /\ ai THEN "semantic"
    ELSE IF search_type = "hybrid" /\ ai THEN "hybrid"
    ELSE "keyword"

extend(q, clauses) == [q EXCEPT !.should = @ \o clauses]

compile(query, search_type, ai) ==
    CASE branch(search_type, ai) = "semantic" ->
            extend(base_query(query), semantic_clauses(query))
      [] branch(search_type, ai) = "hybrid" ->
            extend(base_query(query), hybrid_clauses(query))
      [] OTHER -> base_query(query)

\* build_elasticsearch_query reads the module's flag.
build_elasticsearch_query(query, search_type) ==
    compile(query, search_type, GOOGLE_CLOUD_INITIALIZED)

(***************************************************************************)
(* Requests, main.py:41-44.  pydantic validates a SearchRequest before the *)
(* handler runs: query of length >= 1, 1 <= limit <= 50, search_type any   *)
(* string.                                                                 *)
(***************************************************************************)
Queries == {"", "villa", "2 bhk"}

Modes == {"keyword", "semantic", "hybrid", "fuzzy"}

MaxLimit == 2

Limits == 0..MaxLimit \cup {50, 51}

SearchRequest == [query : Queries, limit : Limits, search_type : Modes]

\* A validation that knows the three modes.
valid_known_mode(request) ==
    /\ Len(request.query) >= 1
    /\ request.limit >= 1
    /\ request.limit <= 50
    /\ request.search_type \in {"keyword", "semantic", "hybrid"}

\* main.py:41-44, the constraints of the fields.
valid(request) ==
    /\ Len(request.query) >= 1
    /\ request.limit >= 1
    /\ request.limit <= 50

NoCompile ==
    [query |-> "", search_type |-> None, ai |-> FALSE, used |-> None,
     previous |-> None,
     es_query |-> [should |-> <<>>, minimum_should_match |-> 0]]

\* What one call of build_elasticsearch_query leaves behind.
compilation(query, search_type) ==
    [query |-> query, search_type |-> search_type,
     ai |-> GOOGLE_CLOUD_INITIALIZED,
     used |-> branch(search_type, GOOGLE_CLOUD_INITIALIZED),
     previous |-> None,
     es_query |-> build_elasticsearch_query(query, search_type)]

NoResponse ==
    [kind |-> None, status |-> 0, cause |-> None, query |-> "",
     requested |-> None, search_type |-> None, limit |-> 0,
     results |-> <<>>, total |-> 0, counted |-> 0, sample |-> {},
     property_types |-> {}, platforms |-> {}, cities |-> {},
     reachable |-> FALSE]

\* HTTPException(status_code, detail): the handler's failure answers.
HTTPException(kind, status, cause) ==
    [NoResponse EXCEPT !.kind = kind, !.status = status, !.cause = cause,
                       !.reachable = storeUp]

\* A label that does not follow the request.
result_label_hybrid(search_type) == "elasticsearch_hybrid_search"

\* main.py:438, the label of one result.
result_label(search_type) == "elasticsearch_" \o search_type \o "_search"

\* main.py:447, the label of the response.
response_label(request) == request.search_type

\* main.py:417-440, the hits mapped to results.
PropertyResponse(hits, request) ==
    [k \in 1..Len(hits) |->
        [id |-> catalog[hits[k]].property_id,
         search_type |-> result_label(request.search_type)]]

\* main.py:442-461
SearchResponse(hits, request) ==
    [NoResponse EXCEPT
        !.kind = "search", !.status = 200, !.query = request.query,
        !.requested = request.search_type, !.limit = request.limit,
        !.search_type = response_label(request),
        !.results = PropertyResponse(hits, request), !.total = Len(hits),
        !.reachable = storeUp]

\* A handler-side guard that builds a client on every request.
ensure_elasticsearch_client_always ==
    sync_client' = IF sync_client = "client" THEN "another client" ELSE "client"

\* main.py:322-342
ensure_elasticsearch_client ==
    sync_client' = IF sync_client = None THEN "client" ELSE sync_client

\* The store's answer to search(index, query, size): at most size documents.
StoreHits(size) ==
    SeqsUpTo(Present(catalog), Min(size, Cardinality(Present(catalog))))

(***************************************************************************)
(* Startup, main.py:527-546 with initialize_google_cloud (142-166) and     *)
(* initialize_elasticsearch (168-205).  libs: the elasticsearch import and *)
(* the client constructor worked; gc: the AI platform initialised.         *)
(***************************************************************************)
initialize_elasticsearch(libs) == libs /\ storeUp

startup_event ==
    /\ ~started
    /\ started' = TRUE
    /\ \E gc \in BOOLEAN, libs \in BOOLEAN :
        /\ GOOGLE_CLOUD_INITIALIZED' = gc
        /\ ELASTICSEARCH_INITIALIZED' = initialize_elasticsearch(libs)
        /\ sync_client' = IF libs THEN "client" ELSE sync_client
        /\ store_log' = IF libs THEN <<"ping">> ELSE <<>>
    /\ UNCHANGED <<storeUp, catalog, compiled, response, rec, indices, caller,
                   remembered, auxVars>>

\* A direct call of the compiler.
call_build_elasticsearch_query ==
    /\ \E query \in Queries, search_type \in Modes :
        compiled' = compilation(query, search_type)
    /\ UNCHANGED <<GOOGLE_CLOUD_INITIALIZED, ELASTICSEARCH_INITIALIZED,
                   sync_client, started, storeUp, catalog, response,
                   store_log, rec, indices, caller, remembered, auxVars>>

\* A direct call of the compiler in a run whose compilations are compared:
\* the compilation that is overwritten is kept, or an earlier one stays
\* kept, so that any two compilations of a run end up side by side; previous
\* is the branch the overwritten compilation took.
call_build_elasticsearch_query_again ==
    /\ \E query \in Queries, search_type \in Modes :
        compiled' = [compilation(query, search_type) EXCEPT
                        !.previous = compiled.used]
    /\ remembered' \in {remembered, compiled}
    /\ UNCHANGED <<GOOGLE_CLOUD_INITIALIZED, ELASTICSEARCH_INITIALIZED,
                   sync_client, started, storeUp, catalog, response,
                   store_log, rec, indices, caller, auxVars>>

\* A guard that lets every request through.
not_initialized_never == FALSE

\* main.py:396 and 471, "if not ELASTICSEARCH_INITIALIZED".
not_initialized == ~ELASTICSEARCH_INITIALIZED

\* A request the framework rejects (422): the handler does not run.
request_rejected ==
    /\ \E request \in SearchRequest :
        /\ ~valid(request)
        /\ response' = [NoResponse EXCEPT !.kind = "search", !.status = 422,
                                          !.cause = "validation",
                                          !.reachable = storeUp]
    /\ store_log' = <<>>
    /\ UNCHANGED <<GOOGLE_CLOUD_INITIALIZED, ELASTICSEARCH_INITIALIZED,
                   sync_client, started, storeUp, catalog, compiled, rec,
                   indices, caller, remembered, auxVars>>

(***************************************************************************)
(* search_properties, main.py:391-465.  The handler holds no await: it     *)
(* runs as one step.  other: the store answered with an error, or mapping  *)
(* the hits raised.                                                        *)
(***************************************************************************)
search_properties ==
    /\ \E request \in SearchRequest :
        /\ valid(request)
        /\ IF not_initialized
           THEN /\ response' = HTTPException("search", 503, "not_initialized")
                /\ store_log' = <<>>
                /\ UNCHANGED <<sync_client, compiled>>
           ELSE /\ ensure_elasticsearch_client
                /\ compiled' = compilation(request.query, request.search_type)
                /\ store_log' = <<"search">>
                /\ IF ~storeUp
                   THEN response' = HTTPException("search", 500, "unreachable")
                   ELSE \/ response' = HTTPException("search", 500, "other")
                        \/ \E hits \in StoreHits(request.limit) :
                             response' = SearchResponse(hits, request)
    /\ UNCHANGED <<GOOGLE_CLOUD_INITIALIZED, ELASTICSEARCH_INITIALIZED,
                   started, storeUp, catalog, rec, indices, caller, remembered,
                   auxVars>>

(***************************************************************************)
(* get_stats, main.py:468-524: count, then a search of the sample, then    *)
(* the three facets.  A listing is a document with the facet fields; its   *)
(* property type, city and platform are numbered.  The handler holds no    *)
(* await: it runs as one step.                                             *)
(***************************************************************************)
NumDocs == 101

NumTypes == 21

\* main.py:489, size=100
SampleSize == 100

\* main.py:508-510, [:20]
FacetCap == 20

\* The k-th listing of a large catalog.  One listing in three carries no
\* platform_name.
Listing(k) ==
    IF k % 3 = 0
    THEN [property_type |-> k % NumTypes, city |-> (k - 1) \div 50]
    ELSE [property_type |-> k % NumTypes, city |-> (k - 1) \div 50,
          platform_name |-> k % 2]

Listings(n) == [k \in 1..n |-> Listing(k)]

\* The subsets of S that leave out k of its elements.
RECURSIVE Without(_, _)
Without(S, k) ==
    IF k = 0 \/ S = {} THEN {S}
    ELSE UNION {Without(S \ {x}, k - 1) : x \in S}

\* The store's answer to count(index).
count == Cardinality(Present(catalog))

\* The store's answer to search(index, size) without a query: size of the
\* documents, all when there are no more.  Which ones is the store's choice;
\* of a large catalog it answers a run of consecutive _ids.
Sampled(size) ==
    IF count <= size THEN {Present(catalog)}
    ELSE {{k \in Present(catalog) : lo <= k /\ k < lo + size} :
            lo \in 1..(count - size + 1)}

\* main.py:498-505, the values of one field over the hits that carry it.
Values(hits, field) ==
    {catalog[i][field] : i \in {j \in hits : field \in DOMAIN catalog[j]}}

\* A facet that is not cut.
first_all(values, n) == {values}

\* list(values)[:n]: n of the values, all when there are no more.  The
\* order of a set's list is not fixed, so which n is open.
first(values, n) ==
    IF Cardinality(values) <= n THEN {values}
    ELSE Without(values, Cardinality(values) - n)

\* A total taken from the sample.
total_properties_of_sample(count_response, hits) == Cardinality(hits)

\* main.py:484
total_properties(count_response, hits) == count_response

\* main.py:507-521
StatsResponse(hits, property_types, platforms, cities) ==
    [NoResponse EXCEPT !.kind = "stats", !.status = 200,
                       !.total = total_properties(count, hits),
                       !.counted = count, !.sample = hits,
                       !.property_types = property_types,
                       !.platforms = platforms, !.cities = cities,
                       !.reachable = storeUp]

get_stats ==
    /\ IF not_initialized
       THEN /\ response' = HTTPException("stats", 503, "not_initialized")
            /\ store_log' = <<>>
            /\ UNCHANGED sync_client
       ELSE /\ ensure_elasticsearch_client
            /\ IF ~storeUp
               THEN /\ response' = HTTPException("stats", 500, "unreachable")
                    /\ store_log' = <<"count">>
               ELSE \/ /\ response' = HTTPException("stats", 500, "other")
                       /\ store_log' \in {<<"count">>, <<"count", "search">>}
                    \/ /\ \E hits \in Sampled(SampleSize) :
                          \E property_types \in
                                first(Values(hits, "property_type"), FacetCap),
                             platforms \in
                                first(Values(hits, "platform_name"), FacetCap),
                             cities \in
                                first(Values(hits, "city"), FacetCap) :
                            response' = StatsResponse(hits, property_types,
                                                      platforms, cities)
                       /\ store_log' = <<"count", "search">>
    /\ UNCHANGED <<GOOGLE_CLOUD_INITIALIZED, ELASTICSEARCH_INITIALIZED,
                   started, storeUp, catalog, compiled, rec, indices, caller,
                   remembered, auxVars>>

\* The environment: the store becomes unreachable, or reachable again.
store_changes ==
    /\ storeUp' = ~storeUp
    /\ UNCHANGED <<GOOGLE_CLOUD_INITIALIZED, ELASTICSEARCH_INITIALIZED,
                   sync_client, started, catalog, compiled, response,
                   store_log, rec, indices, caller, remembered, auxVars>>

IdleRec ==
    [pc |-> "idle", property_id |-> "", limit |-> 0, property_data |-> Absent,
     fetch |-> None, search |-> None, searches |-> 0, outcome |-> None,
     result |-> <<>>]

\* The four indices, elasticsearch_service.py:93, 121, 299, 336.
IndexNames ==
    {"ai_search_conversations", "ai_search_real_estate",
     "ai_search_inquiries", "ai_search_site_visits"}

NoIndices == [i \in IndexNames |-> 0]

IdleCaller ==
    [pc |-> "idle", index |-> None, attempt |-> 0, failures |-> 0, creates |-> 0,
     refused |-> 0, existed |-> FALSE, wait |-> 0]

Callers == {"c1", "c2"}

IdleEmbed ==
    [called |-> FALSE, text |-> "", initialized |-> FALSE, working |-> {},
     tried |-> <<>>, failed |-> {}, model |-> None, values |-> <<>>]

IdleConfig ==
    [cls |-> None, status |-> None,
     given |-> <<[set |-> FALSE, v |-> 0], [set |-> FALSE, v |-> 0]>>,
     vector |-> 0, keyword |-> 0]

IdleBulk ==
    [called |-> FALSE, properties |-> <<>>, success |-> 0, failed |-> {},
     outcome |-> None, value |-> <<>>]

NoSave == [called |-> FALSE, stored |-> FALSE, outcome |-> None]

IdleHistory ==
    [called |-> FALSE, session_id |-> "", limit |-> 0, seen |-> 0,
     hits |-> <<>>, outcome |-> None, result |-> <<>>, save |-> NoSave]

IdleReq ==
    [pc |-> "idle", query |-> "", search_type |-> None, limit |-> 0,
     es_query |-> [should |-> <<>>, minimum_should_match |-> 0],
     trail |-> <<>>, sent |-> <<>>, status |-> 0]

IdleConn ==
    [pc |-> "idle", es_url |-> "", api_key |-> FALSE, tried |-> <<>>,
     errors |-> <<>>, raised |-> None, client |-> None]

IdleAux ==
    /\ req = IdleReq
    /\ conn = IdleConn
    /\ embed = IdleEmbed
    /\ config = IdleConfig
    /\ bulk = IdleBulk
    /\ conversations = <<>>
    /\ history = IdleHistory

InitSearch ==
    /\ GOOGLE_CLOUD_INITIALIZED = FALSE
    /\ ELASTICSEARCH_INITIALIZED = FALSE
    /\ sync_client = None
    /\ started = FALSE
    /\ storeUp \in BOOLEAN
    /\ catalog \in {EmptyCatalog, SampleCatalog}
    /\ compiled = NoCompile
    /\ response = NoResponse
    /\ store_log = <<>>
    /\ rec = IdleRec
    /\ indices = NoIndices
    /\ caller = [c \in Callers |-> IdleCaller]
    /\ remembered = NoCompile
    /\ IdleAux

NextSearch ==
    \/ startup_event
    \/ call_build_elasticsearch_query
    \/ request_rejected
    \/ search_properties
    \/ get_stats
    \/ store_changes

\* The search service: startup, the compiler and the two request handlers.
SpecSearch == InitSearch /\ [][NextSearch]_vars

(***************************************************************************)
(* search_properties once more, main.py:391-465, step by step: the guard   *)
(* (396-403), the base dict (241-263), the augmentation (265-318), the     *)
(* dispatch and the answer (409-465).  trail lists the steps taken and     *)
(* sent the queries handed to the store's search.  The store may change    *)
(* between the steps; startup is over.                                     *)
(***************************************************************************)
Steps == <<"base", "augmentation", "dispatch">>

\* A handler that dispatches what the base step built.
next_step_skipping(step) ==
    IF step = "base" THEN "dispatch" ELSE "done"

\* The step that follows a step of the handler.
next_step(step) ==
    CASE step = "base" -> "augmentation"
      [] step = "augmentation" -> "dispatch"
      [] OTHER -> "done"

\* 391-403.  A request the framework refuses (422) does not reach the
\* handler.
search_request ==
    /\ req.pc \in {"idle", "done"}
    /\ \E request \in SearchRequest :
        IF ~valid(request)
        THEN /\ req' = [IdleReq EXCEPT
                          !.pc = "done", !.query = request.query,
                          !.search_type = request.search_type,
                          !.limit = request.limit, !.status = 422]
             /\ response' = [NoResponse EXCEPT
                               !.kind = "search", !.status = 422,
                               !.cause = "validation", !.reachable = storeUp]
             /\ UNCHANGED sync_client
        ELSE
        /\ IF not_initialized
           THEN /\ req' = [IdleReq EXCEPT
                             !.pc = "done", !.query = request.query,
                             !.search_type = request.search_type,
                             !.limit = request.limit, !.status = 503]
                /\ response' = HTTPException("search", 503, "not_initialized")
                /\ UNCHANGED sync_client
           ELSE /\ req' = [IdleReq EXCEPT
                             !.pc = "base", !.query = request.query,
                             !.search_type = request.search_type,
                             !.limit = request.limit]
                /\ response' = NoResponse
                /\ ensure_elasticsearch_client
    /\ store_log' = <<>>
    /\ UNCHANGED <<GOOGLE_CLOUD_INITIALIZED, ELASTICSEARCH_INITIALIZED,
                   started, storeUp, catalog, compiled, rec, indices, caller,
                   remembered, embed, config, bulk, conversations, history,
                   conn>>

\* 241-263
build_base_clause ==
    /\ req.pc = "base"
    /\ req' = [req EXCEPT !.es_query = base_query(req.query),
                          !.trail = Append(@, "base"),
                          !.pc = next_step("base")]
    /\ UNCHANGED <<searchVars, catalog, rec, indices, caller, embed, config,
                   bulk, conversations, history, conn>>

\* 265-320
augment ==
    /\ req.pc = "augmentation"
    /\ req' = [req EXCEPT
                 !.es_query =
                    CASE branch(req.search_type, GOOGLE_CLOUD_INITIALIZED)
                            = "semantic" ->
                            extend(@, semantic_clauses(req.query))
                      [] branch(req.search_type, GOOGLE_CLOUD_INITIALIZED)
                            = "hybrid" ->
                            extend(@, hybrid_clauses(req.query))
                      [] OTHER -> @,
                 !.trail = Append(@, "augmentation"),
                 !.pc = next_step("augmentation")]
    /\ UNCHANGED <<searchVars, catalog, rec, indices, caller, embed, config,
                   bulk, conversations, history, conn>>

\* 409-465
dispatch ==
    /\ req.pc = "dispatch"
    /\ store_log' = Append(store_log, "search")
    /\ \E answer \in
            IF ~storeUp THEN {HTTPException("search", 500, "unreachable")}
            ELSE {HTTPException("search", 500, "other")} \cup
                 {SearchResponse(hits, [query |-> req.query,
                                        search_type |-> req.search_type,
                                        limit |-> req.limit]) :
                    hits \in StoreHits(req.limit)} :
        /\ response' = answer
        /\ req' = [req EXCEPT !.sent = Append(@, req.es_query),
                              !.trail = Append(@, "dispatch"),
                              !.status = answer.status,
                              !.pc = next_step("dispatch")]
    /\ UNCHANGED <<GOOGLE_CLOUD_INITIALIZED, ELASTICSEARCH_INITIALIZED,
                   sync_client, started, storeUp, catalog, compiled, rec,
                   indices, caller, remembered, embed, config, bulk,
                   conversations, history, conn>>

\* The service after startup, whatever startup achieved.
InitSteps ==
    /\ GOOGLE_CLOUD_INITIALIZED \in BOOLEAN
    /\ ELASTICSEARCH_INITIALIZED \in BOOLEAN
    /\ sync_client \in
          IF ELASTICSEARCH_INITIALIZED THEN {"client"} ELSE {None, "client"}
    /\ started = TRUE
    /\ storeUp \in BOOLEAN
    /\ catalog \in {EmptyCatalog, SampleCatalog}
    /\ compiled = NoCompile
    /\ response = NoResponse
    /\ store_log = <<>>
    /\ rec = IdleRec
    /\ indices = NoIndices
    /\ caller = [c \in Callers |-> IdleCaller]
    /\ remembered = NoCompile
    /\ IdleAux

NextSteps ==
    \/ search_request
    \/ build_base_clause
    \/ augment
    \/ dispatch
    \/ store_changes

SpecSteps == InitSteps /\ [][NextSteps]_vars

(***************************************************************************)
(* ElasticsearchService.connect, elasticsearch_service.py:21-81.  The call *)
(* suspends at client.info(), of the configured endpoint and of the        *)
(* fallback.  storeUp says whether the configured endpoint answers; the    *)
(* local default may answer or not.  self.client keeps the client built    *)
(* last.                                                                   *)
(***************************************************************************)
\* line 64
LocalDefault == "http://localhost:9200"

\* What settings.get_elasticsearch_url() may give.
Urls ==
    {LocalDefault, "http://localhost:9200/", "https://localhost:9200",
     "http://127.0.0.1:9200", "https://search.example.com:9243"}

\* A handler that tries the fallback whatever the configured URL.
try_fallback_always(es_url) == TRUE

\* line 64, "if es_url != 'http://localhost:9200'"
try_fallback(es_url) == es_url # LocalDefault

\* 55-81: the except branch, entered with the error of the configured
\* endpoint.
configured_failed(c) ==
    IF try_fallback(c.es_url)
    THEN [c EXCEPT !.pc = "fallback", !.errors = Append(@, "configured"),
                   !.tried = Append(@, LocalDefault),
                   !.client = LocalDefault]
    ELSE [c EXCEPT !.pc = "raised", !.errors = Append(@, "configured"),
                   !.raised = "configured"]

\* 21-48: the call, up to the first await.  The constructor may raise.
connect ==
    /\ conn.pc \in {"idle", "returned", "raised"}
    /\ \/ conn' = [conn EXCEPT !.pc = "info", !.tried = <<conn.es_url>>,
                                !.errors = <<>>, !.raised = None,
                                !.client = conn.es_url]
       \/ conn' = configured_failed(
                    [conn EXCEPT !.tried = <<conn.es_url>>, !.errors = <<>>,
                                 !.raised = None])
    /\ UNCHANGED <<searchVars, catalog, rec, indices, caller, req, embed,
                   config, bulk, conversations, history>>

\* 51-53: the configured endpoint answers info(), or the await raises.
client_info ==
    /\ conn.pc = "info"
    /\ \/ /\ storeUp
          /\ conn' = [conn EXCEPT !.pc = "returned"]
       \/ conn' = configured_failed(conn)
    /\ UNCHANGED <<searchVars, catalog, rec, indices, caller, req, embed,
                   config, bulk, conversations, history>>

\* 75-81: the local default answers info() and connect returns, or it does
\* not and the bare raise re-raises the error being handled.
fallback_info ==
    /\ conn.pc = "fallback"
    /\ \/ conn' = [conn EXCEPT !.pc = "returned"]
       \/ conn' = [conn EXCEPT !.pc = "raised",
                               !.errors = Append(@, "fallback"),
                               !.raised = "configured"]
    /\ UNCHANGED <<searchVars, catalog, rec, indices, caller, req, embed,
                   config, bulk, conversations, history>>

InitConnect ==
    /\ GOOGLE_CLOUD_INITIALIZED = FALSE
    /\ ELASTICSEARCH_INITIALIZED = FALSE
    /\ sync_client = None
    /\ started = FALSE
    /\ storeUp \in BOOLEAN
    /\ catalog = EmptyCatalog
    /\ compiled = NoCompile
    /\ response = NoResponse
    /\ store_log = <<>>
    /\ rec = IdleRec
    /\ indices = NoIndices
    /\ caller = [c \in Callers |-> IdleCaller]
    /\ remembered = NoCompile
    /\ req = IdleReq
    /\ conn \in {[IdleConn EXCEPT !.es_url = u, !.api_key = k] :
                    u \in Urls, k \in BOOLEAN}
    /\ embed = IdleEmbed
    /\ config = IdleConfig
    /\ bulk = IdleBulk
    /\ conversations = <<>>
    /\ history = IdleHistory

NextConnect ==
    \/ connect
    \/ client_info
    \/ fallback_info
    \/ store_changes

SpecConnect == InitConnect /\ [][NextConnect]_vars

\* The compiler called again and again, before and after startup.
InitCompile ==
    /\ GOOGLE_CLOUD_INITIALIZED = FALSE
    /\ ELASTICSEARCH_INITIALIZED = FALSE
    /\ sync_client = None
    /\ started = FALSE
    /\ storeUp \in BOOLEAN
    /\ catalog = EmptyCatalog
    /\ compiled = NoCompile
    /\ response = NoResponse
    /\ store_log = <<>>
    /\ rec = IdleRec
    /\ indices = NoIndices
    /\ caller = [c \in Callers |-> IdleCaller]
    /\ remembered = NoCompile
    /\ IdleAux

NextCompile ==
    \/ startup_event
    \/ call_build_elasticsearch_query_again

SpecCompile == InitCompile /\ [][NextCompile]_vars

\* The stats handler over catalogs below, at and above the sample size.
InitStats ==
    /\ GOOGLE_CLOUD_INITIALIZED = FALSE
    /\ ELASTICSEARCH_INITIALIZED = FALSE
    /\ sync_client = None
    /\ started = FALSE
    /\ storeUp \in BOOLEAN
    /\ catalog \in {Listings(n) : n \in {0, 3, SampleSize, NumDocs}}
    /\ compiled = NoCompile
    /\ response = NoResponse
    /\ store_log = <<>>
    /\ rec = IdleRec
    /\ indices = NoIndices
    /\ caller = [c \in Callers |-> IdleCaller]
    /\ remembered = NoCompile
    /\ IdleAux

NextStats ==
    \/ startup_event
    \/ get_stats
    \/ store_changes

SpecStats == InitStats /\ [][NextStats]_vars

(***************************************************************************)
(* The recommendation engine, elasticsearch_service.py:440-492.  The call  *)
(* suspends twice, at client.get and at client.search; the catalog may be  *)
(* written and the store may fail in between.                              *)
(***************************************************************************)
RecLimits == 0..MaxLimit

\* A similarity query that does not exclude the source.
recommendation_query_with_source(property_id, property_data) ==
    [must_not_property_id |-> "", filter_status |-> "available",
     query_vector |-> property_data.embedding]

\* elasticsearch_service.py:465-480, the similarity query.
recommendation_query(property_id, property_data) ==
    [must_not_property_id |-> property_id, filter_status |-> "available",
     query_vector |-> property_data.embedding]

\* The store: the documents a recommendation query matches.
Matches(query) ==
    {i \in Present(catalog) :
        /\ catalog[i].property_id # query.must_not_property_id
        /\ catalog[i].property_status = query.filter_status}

\* The store: the top size matches, ties in any order.
SimilarHits(query, size) ==
    {h \in SeqsUpTo(Matches(query), size) :
        Len(h) = Min(size, Cardinality(Matches(query)))}

Sources(hits) == [k \in 1..Len(hits) |-> catalog[hits[k]]]

\* A guard that forgets the embedding.
nothing_to_compare_not_found_only(property_data) == property_data = Absent

\* elasticsearch_service.py:461
nothing_to_compare(property_data) ==
    property_data = Absent \/ property_data.embedding = None

get_property_recommendations ==
    /\ rec.pc \in {"idle", "done"}
    /\ \E property_id \in Ids, limit \in RecLimits :
        rec' = [IdleRec EXCEPT !.pc = "get", !.property_id = property_id,
                               !.limit = limit]
    /\ UNCHANGED <<searchVars, catalog, indices, caller, auxVars>>

\* client.get answers (get_property_by_id, 440-450), and the call goes on to
\* line 461: it returns [] or issues the similarity search.
fetched(outcome, property_data) ==
    IF nothing_to_compare(property_data)
    THEN [rec EXCEPT !.pc = "done", !.fetch = outcome,
                     !.property_data = property_data,
                     !.outcome = "returned", !.result = <<>>]
    ELSE [rec EXCEPT !.pc = "search", !.fetch = outcome,
                     !.property_data = property_data,
                     !.searches = @ + 1]

get_property_by_id ==
    /\ rec.pc = "get"
    /\ \/ /\ storeUp
          /\ catalog[rec.property_id] # Absent
          /\ rec' = fetched("found", catalog[rec.property_id])
       \/ /\ storeUp
          /\ catalog[rec.property_id] = Absent
          /\ rec' = fetched("not_found", Absent)
       \/ rec' = fetched("failed", Absent)
    /\ UNCHANGED <<searchVars, catalog, indices, caller, auxVars>>

\* client.search answers (482-492).
similarity_search ==
    /\ rec.pc = "search"
    /\ \/ /\ storeUp
          /\ \E hits \in SimilarHits(
                    recommendation_query(rec.property_id, rec.property_data),
                    rec.limit) :
                rec' = [rec EXCEPT !.pc = "done", !.search = "ok",
                                   !.outcome = "returned",
                                   !.result = Sources(hits)]
       \/ rec' = [rec EXCEPT !.pc = "done", !.search = "failed",
                             !.outcome = "returned", !.result = <<>>]
    /\ UNCHANGED <<searchVars, catalog, indices, caller, auxVars>>

\* index_property, 369-382: the document is stored under _id = property_id.
index_property ==
    /\ storeUp
    /\ \E property_data \in Docs :
        catalog' = [catalog EXCEPT ![property_data.property_id] = property_data]
    /\ UNCHANGED <<searchVars, rec, indices, caller, auxVars>>

InitRecommend ==
    /\ GOOGLE_CLOUD_INITIALIZED = FALSE
    /\ ELASTICSEARCH_INITIALIZED = FALSE
    /\ sync_client = None
    /\ started = FALSE
    /\ storeUp \in BOOLEAN
    /\ catalog \in {EmptyCatalog, SampleCatalog, ForeignCatalog}
    /\ compiled = NoCompile
    /\ response = NoResponse
    /\ store_log = <<>>
    /\ rec = IdleRec
    /\ indices = NoIndices
    /\ caller = [c \in Callers |-> IdleCaller]
    /\ remembered = NoCompile
    /\ IdleAux

NextRecommend ==
    \/ get_property_recommendations
    \/ get_property_by_id
    \/ similarity_search
    \/ index_property
    \/ store_changes

\* The recommendation engine over a catalog that is being written.
SpecRecommend == InitRecommend /\ [][NextRecommend]_vars


(***************************************************************************)
(* Index creation, elasticsearch_service.py:90-367.  The four operations   *)
(* differ in the index name and the mapping only; each is wrapped in       *)
(* tenacity's retry(stop_after_attempt(3), wait_exponential(1, 2, 10)).    *)
(* A call suspends at indices.exists, at indices.create and in the wait    *)
(* between two attempts, so two callers interleave there.                  *)
(***************************************************************************)
stop_after_attempt == 3

\* A retry policy that never retries.
stop_at_once(attempt_number) == attempt_number >= 1

\* A retry policy that stops one attempt late.
stop_one_late(attempt_number) == attempt_number > stop_after_attempt

\* tenacity's stop_after_attempt: no attempt follows attempt number 3.
stop(attempt_number) == attempt_number >= stop_after_attempt

RECURSIVE Pow2(_)
Pow2(n) == IF n = 0 THEN 1 ELSE 2 * Pow2(n - 1)

Max(a, b) == IF a > b THEN a ELSE b

\* tenacity's wait_exponential(multiplier=1, min=2, max=10), in seconds.
wait_exponential(attempt_number) ==
    Max(2, Min(1 * Pow2(attempt_number - 1), 10))

\* The store: indices.exists.
exists(index) == indices[index] > 0

\* A body that creates without looking.
return_never(index_exists) == FALSE

\* "if exists: return", lines 96, 125, 303, 340.
return_early(index_exists) == index_exists

\* The attempt raised: tenacity stops (RetryError) or waits for the next one.
attempt_failed(c) ==
    IF stop(caller[c].attempt)
    THEN [caller[c] EXCEPT !.pc = "raised", !.failures = @ + 1]
    ELSE [caller[c] EXCEPT !.pc = "sleep", !.failures = @ + 1,
                           !.wait = wait_exponential(caller[c].attempt)]

\* One of create_conversations_index, create_real_estate_index,
\* create_inquiries_index, create_site_visits_index is called.
create_index ==
    /\ \E c \in Callers, index \in IndexNames :
        /\ caller[c].pc \in {"idle", "returned", "raised"}
        /\ caller' = [caller EXCEPT ![c] =
                [IdleCaller EXCEPT !.pc = "exists", !.index = index,
                                   !.attempt = 1, !.existed = exists(index)]]
    /\ UNCHANGED <<searchVars, catalog, rec, indices, auxVars>>

\* indices.exists answers; the body returns, or goes on to indices.create.
indices_exists ==
    /\ \E c \in Callers :
        /\ caller[c].pc = "exists"
        /\ \/ /\ storeUp
              /\ caller' = [caller EXCEPT ![c] =
                    IF return_early(exists(caller[c].index))
                    THEN [@ EXCEPT !.pc = "returned"]
                    ELSE [@ EXCEPT !.pc = "create", !.creates = @ + 1]]
           \/ caller' = [caller EXCEPT ![c] = attempt_failed(c)]
    /\ UNCHANGED <<searchVars, catalog, rec, indices, auxVars>>

\* indices.create answers.  The store refuses an index that exists (refused
\* counts these answers); a request that times out may have been carried out
\* all the same; any request may fail.
indices_create ==
    /\ \E c \in Callers :
        /\ caller[c].pc = "create"
        /\ \/ /\ storeUp
              /\ ~exists(caller[c].index)
              /\ indices' = [indices EXCEPT ![caller[c].index] = @ + 1]
              /\ caller' = [caller EXCEPT ![c].pc = "returned"]
           \/ /\ storeUp
              /\ ~exists(caller[c].index)
              /\ indices' = [indices EXCEPT ![caller[c].index] = @ + 1]
              /\ caller' = [caller EXCEPT ![c] = attempt_failed(c)]
           \/ /\ storeUp
              /\ exists(caller[c].index)
              /\ caller' = [caller EXCEPT
                              ![c] = [attempt_failed(c) EXCEPT
                                         !.refused = @ + 1]]
              /\ UNCHANGED indices
           \/ /\ caller' = [caller EXCEPT ![c] = attempt_failed(c)]
              /\ UNCHANGED indices
    /\ UNCHANGED <<searchVars, catalog, rec, auxVars>>

\* The wait is over: the next attempt starts.
next_attempt ==
    /\ \E c \in Callers :
        /\ caller[c].pc = "sleep"
        /\ caller' = [caller EXCEPT ![c].pc = "exists", ![c].attempt = @ + 1,
                                    ![c].wait = 0]
    /\ UNCHANGED <<searchVars, catalog, rec, indices, auxVars>>

InitIndex ==
    /\ GOOGLE_CLOUD_INITIALIZED = FALSE
    /\ ELASTICSEARCH_INITIALIZED = FALSE
    /\ sync_client = None
    /\ started = FALSE
    /\ storeUp \in BOOLEAN
    /\ catalog = EmptyCatalog
    /\ compiled = NoCompile
    /\ response = NoResponse
    /\ store_log = <<>>
    /\ rec = IdleRec
    /\ indices = NoIndices
    /\ caller = [c \in Callers |-> IdleCaller]
    /\ remembered = NoCompile
    /\ IdleAux

NextIndex ==
    \/ create_index
    \/ indices_exists
    \/ indices_create
    \/ next_attempt
    \/ store_changes

\* The index-creation operations, run by two callers against one store.
SpecIndex == InitIndex /\ [][NextIndex]_vars


(***************************************************************************)
(* The embedding provider, main.py:207-236.  The function holds no await:  *)
(* it runs as one step.  working: the models that answer when asked.       *)
(***************************************************************************)
models_to_try ==
    <<"textembedding-gecko@003", "textembedding-gecko@002",
      "textembedding-gecko@001", "text-multilingual-embedding-002">>

Texts == {"villa with pool", "2 bhk near metro"}

Range(seq) == {seq[k] : k \in 1..Len(seq)}

\* The vector a model returns for a text.
Vector(model_name, text) == <<model_name, text>>

\* A loop that goes on after a model answered and keeps the last answer.
RECURSIVE try_every_model(_, _, _)
try_every_model(models, working, sofar) ==
    IF models = <<>> THEN sofar
    ELSE try_every_model(Tail(models), working,
            [tried |-> Append(sofar.tried, Head(models)),
             model |-> IF Head(models) \in working THEN Head(models)
                       ELSE sofar.model])

\* The loop of lines 221-229: the models after the head are tried only when
\* the head raised.
RECURSIVE try_models(_, _, _)
try_models(models, working, sofar) ==
    IF models = <<>> THEN sofar
    ELSE IF Head(models) \in working
         THEN [tried |-> Append(sofar.tried, Head(models)),
               model |-> Head(models)]
         ELSE try_models(Tail(models), working,
                [sofar EXCEPT !.tried = Append(@, Head(models))])

generate_real_embedding ==
    /\ \E text \in Texts, working \in SUBSET Range(models_to_try) :
        LET got == try_models(models_to_try, working,
                              [tried |-> <<>>, model |-> None])
        IN  embed' =
              IF ~GOOGLE_CLOUD_INITIALIZED
              THEN [IdleEmbed EXCEPT !.called = TRUE, !.text = text,
                                     !.working = working]
              ELSE [called |-> TRUE, text |-> text, initialized |-> TRUE,
                    working |-> working, tried |-> got.tried,
                    failed |-> Range(got.tried) \ working,
                    model |-> got.model,
                    values |-> IF got.model = None THEN <<>>
                               ELSE Vector(got.model, text)]
    /\ UNCHANGED <<searchVars, catalog, rec, indices, caller, req, conn,
                   config, bulk, conversations, history>>

InitEmbed ==
    /\ GOOGLE_CLOUD_INITIALIZED = FALSE
    /\ ELASTICSEARCH_INITIALIZED = FALSE
    /\ sync_client = None
    /\ started = FALSE
    /\ storeUp \in BOOLEAN
    /\ catalog = EmptyCatalog
    /\ compiled = NoCompile
    /\ response = NoResponse
    /\ store_log = <<>>
    /\ rec = IdleRec
    /\ indices = NoIndices
    /\ caller = [c \in Callers |-> IdleCaller]
    /\ remembered = NoCompile
    /\ IdleAux

NextEmbed ==
    \/ startup_event
    \/ generate_real_embedding

\* The embedding provider, before and after startup.
SpecEmbed == InitEmbed /\ [][NextEmbed]_vars


(***************************************************************************)
(* The claims on the query compiler and the request handlers (SpecSearch). *)
(***************************************************************************)
KnownModes == {"keyword", "semantic", "hybrid"}

HasClause(q, P(_)) == \E k \in 1..Len(q.should) : P(q.should[k])

IsBaseMultiMatch(c) ==
    /\ c.clause = "multi_match"
    /\ c.query = compiled.query
    /\ c.fields = <<"name^3", "description^2", "property_type^2", "city^2",
                    "area", "amenities">>

IsCombinedText(c) ==
    /\ c.clause = "match"
    /\ c.field = "combined_text"
    /\ c.query = compiled.query

\* C1: for every mode in {keyword, semantic, hybrid}, either value of the AI
\* flag and every non-empty query, the compiled query has
\* minimum_should_match = 1 and its should-list holds the base multi-field
\* clause and the combined_text clause.
C1_BaseClausesAlways ==
    (compiled.search_type \in KnownModes /\ compiled.query # "") =>
        /\ compiled.es_query.minimum_should_match = 1
        /\ HasClause(compiled.es_query, IsBaseMultiMatch)
        /\ HasClause(compiled.es_query, IsCombinedText)

\* C1's case: an augmented compilation of a non-empty query.
C1_Witness ==
    /\ compiled.search_type = "semantic"
    /\ compiled.ai
    /\ compiled.query = "2 bhk"
    /\ Len(compiled.es_query.should) > 2

\* C2: with the AI subsystem unavailable, the semantic and the hybrid
\* compilation of a query string equal its keyword compilation.
C2_DegradedEqualsKeyword ==
    (~compiled.ai /\ compiled.search_type \in {"semantic", "hybrid"}) =>
        compiled.es_query = compile(compiled.query, "keyword", FALSE)

\* C2's case: a search request served in hybrid mode without the AI subsystem.
C2_Witness ==
    /\ ~compiled.ai
    /\ compiled.search_type = "hybrid"
    /\ response.status = 200
    /\ response.requested = "hybrid"
    /\ response.query = compiled.query

\* C3: a semantic or hybrid request served without the AI subsystem is
\* labelled, in the response and in each result, with the mode actually used
\* (keyword), not the requested one.
C3_LabelReflectsUsedMode ==
    (/\ response.kind = "search"
     /\ response.status = 200
     /\ response.requested \in {"semantic", "hybrid"}
     /\ ~GOOGLE_CLOUD_INITIALIZED) =>
        /\ response.search_type = "keyword"
        /\ \A k \in 1..Len(response.results) :
                response.results[k].search_type = "elasticsearch_keyword_search"

\* C4: with the AI subsystem available, the semantic and the hybrid
\* compilation hold strictly more should-clauses than the keyword
\* compilation of the same query string.
C4_AugmentedHasMoreClauses ==
    (compiled.ai /\ compiled.search_type \in {"semantic", "hybrid"}) =>
        Len(compiled.es_query.should)
            > Len(compile(compiled.query, "keyword", TRUE).should)

\* C4's case: a hybrid compilation with the AI subsystem available.
C4_Witness ==
    /\ compiled.ai
    /\ compiled.search_type = "hybrid"
    /\ compiled.used = "hybrid"
    /\ compiled.query = "villa"

\* C8: a search or stats request served while the store is unreachable is
\* answered with the service-unavailable status (503), whether the store was
\* unreachable at startup or became so afterwards.
C8_UnreachableIs503 ==
    (/\ response.kind \in {"search", "stats"}
     /\ response.cause # "validation"
     /\ ~response.reachable) =>
        response.status = 503

(***************************************************************************)
(* The claims on the recommendation engine (SpecRecommend).                *)
(***************************************************************************)
\* C5: a store failure, of the source fetch or of the similarity search, is
\* surfaced to the caller as a failure and never as an empty list.
C5_StoreFailureSurfaced ==
    (rec.pc = "done" /\ (rec.fetch = "failed" \/ rec.search = "failed")) =>
        rec.outcome = "raised"

\* C6: when the source property is not found, or its document holds no
\* embedding, the call returns the empty list, raises nothing and issues no
\* similarity search.
C6_NoSourceVectorGivesEmpty ==
    (/\ rec.pc = "done"
     /\ \/ rec.fetch = "not_found"
        \/ rec.fetch = "found" /\ rec.property_data.embedding = None) =>
        /\ rec.outcome = "returned"
        /\ rec.result = <<>>
        /\ rec.searches = 0

\* C6's case: the source is in the catalog, without an embedding, while the
\* catalog holds a candidate the search would have matched.
C6_Witness ==
    /\ rec.pc = "done"
    /\ rec.fetch = "found"
    /\ rec.property_data.embedding = None
    /\ rec.limit > 0
    /\ \E i \in Present(catalog) :
        /\ catalog[i].property_id # rec.property_id
        /\ catalog[i].property_status = "available"

\* C7: whatever the catalog, the returned list holds no document with the
\* source property id, only available documents, and at most limit entries.
C7_RecommendationsFiltered ==
    rec.pc = "done" =>
        /\ Len(rec.result) <= rec.limit
        /\ \A k \in 1..Len(rec.result) :
            /\ rec.result[k].property_id # rec.property_id
            /\ rec.result[k].property_status = "available"

\* C7's case: a source with an embedding, a catalog that holds the source as
\* an available document and more candidates than the limit.
C7_Witness ==
    /\ rec.pc = "done"
    /\ rec.fetch = "found"
    /\ rec.search = "ok"
    /\ rec.limit = 1
    /\ Len(rec.result) = 1
    /\ catalog[rec.property_id].property_id = rec.property_id
    /\ catalog[rec.property_id].property_status = "available"
    /\ Cardinality({i \in Present(catalog) :
            /\ catalog[i].property_id # rec.property_id
            /\ catalog[i].property_status = "available"}) >= 2

(***************************************************************************)
(* The claims on index creation (SpecIndex).                               *)
(***************************************************************************)
\* C9: an index-creation operation makes at most 3 attempts; when all of them
\* fail the failure is raised to the caller, and an attempt that succeeds is
\* the last one (every attempt before it failed, none follows it).
C9_AtMostThreeAttemptsThenRaised ==
    \A c \in Callers :
        /\ caller[c].attempt <= 3
        /\ caller[c].failures <= 3
        /\ caller[c].failures = 3 <=> caller[c].pc = "raised"
        /\ caller[c].pc = "raised" => caller[c].attempt = 3
        /\ caller[c].pc \in {"exists", "create", "returned"} =>
                caller[c].failures = caller[c].attempt - 1
        /\ caller[c].pc = "sleep" =>
                caller[c].failures = caller[c].attempt /\ caller[c].attempt < 3

\* C9's case: both outcomes at the third attempt, one caller raised after
\* three failures and one returned after two.
C9_Witness ==
    /\ caller["c1"].pc = "raised"
    /\ caller["c1"].failures = 3
    /\ caller["c2"].pc = "returned"
    /\ caller["c2"].attempt = 3
    /\ caller["c2"].creates >= 1

\* C10: an index-creation operation called when its index exists issues no
\* create_index call and returns normally (it fails only when the store did
\* not answer the exists check in any of the three attempts); no index is
\* created more than once.
C10_EnsureIndexIdempotent ==
    /\ \A index \in IndexNames : indices[index] <= 1
    /\ \A c \in Callers :
        caller[c].existed =>
            /\ caller[c].creates = 0
            /\ caller[c].pc # "create"
            /\ indices[caller[c].index] = 1
            /\ caller[c].pc = "raised" => caller[c].failures = 3

\* C10's case: a call that created the index, and a later call of the same
\* operation that found it and returned at once.
C10_Witness ==
    /\ caller["c1"].pc = "returned"
    /\ ~caller["c1"].existed
    /\ caller["c1"].creates = 1
    /\ caller["c2"].pc = "returned"
    /\ caller["c2"].existed
    /\ caller["c2"].index = caller["c1"].index
    /\ caller["c2"].attempt = 1
    /\ indices[caller["c1"].index] = 1

\* The only failures the call met are creates the store refused because the
\* index was there.
OnlyRefused(c) == caller[c].failures = caller[c].refused

\* C23: two callers of one index-creation operation that both find the index
\* absent create it exactly once; when the lost race is the only failure a
\* caller meets, it fails that one create, retries, finds the index and
\* returns at its second attempt, and no caller raises.
C23_CreateRaceBothReturn ==
    /\ \A index \in IndexNames : indices[index] <= 1
    /\ \A c \in Callers :
        (caller[c].pc # "idle" /\ OnlyRefused(c)) =>
            /\ caller[c].pc # "raised"
            /\ caller[c].refused <= 1
            /\ caller[c].attempt <= 2
            /\ caller[c].refused = 1 =>
                  /\ indices[caller[c].index] = 1
                  /\ caller[c].creates = 1
                  /\ caller[c].pc \in {"sleep", "exists", "returned"}
                  /\ caller[c].pc = "returned" => caller[c].attempt = 2

\* Both callers found the index absent; one created it, the other was
\* refused, retried and returned.
C23_Witness ==
    /\ caller["c1"].index = caller["c2"].index
    /\ ~caller["c1"].existed
    /\ ~caller["c2"].existed
    /\ caller["c1"].pc = "returned"
    /\ caller["c1"].attempt = 1
    /\ caller["c1"].failures = 0
    /\ caller["c1"].creates = 1
    /\ caller["c2"].pc = "returned"
    /\ caller["c2"].attempt = 2
    /\ caller["c2"].failures = 1
    /\ caller["c2"].refused = 1
    /\ caller["c2"].creates = 1
    /\ indices[caller["c1"].index] = 1

(***************************************************************************)
(* The claims on the embedding provider (SpecEmbed).                       *)
(***************************************************************************)
\* The models are tried in their priority order, the first that answers is
\* the last one tried and gives the result, and every model before it raised.
TriedInOrderFirstWins ==
    /\ Len(embed.tried) <= Len(models_to_try)
    /\ embed.tried = SubSeq(models_to_try, 1, Len(embed.tried))
    /\ \A k \in 1..Len(embed.tried) :
        embed.tried[k] \in embed.working <=>
            (k = Len(embed.tried) /\ embed.model = embed.tried[k])
    /\ embed.model # None =>
        /\ embed.tried # <<>>
        /\ embed.model = embed.tried[Len(embed.tried)]
        /\ embed.values = Vector(embed.model, embed.text)
    /\ embed.model = None <=> embed.values = <<>>

\* C11 as stated: the models are tried in order, the first that answers wins
\* and no later one is tried, and the empty result is returned only when
\* every model of the list has failed.
C11_EmptyOnlyWhenAllFailed ==
    embed.called =>
        /\ TriedInOrderFirstWins
        /\ embed.values = <<>> => embed.failed = Range(models_to_try)

\* C11 as amended: as above once the AI platform is initialised; before that
\* the empty result is returned without any model being tried.
C11_OrderedFallback ==
    embed.called =>
        /\ TriedInOrderFirstWins
        /\ embed.initialized =>
            (embed.values = <<>> <=> embed.failed = Range(models_to_try))
        /\ ~embed.initialized => (embed.values = <<>> /\ embed.tried = <<>>)

\* C11's case: the first two models fail, the third answers although the
\* fourth would have answered too.
C11_Witness ==
    /\ embed.called
    /\ embed.initialized
    /\ Len(embed.tried) = 3
    /\ embed.model = models_to_try[3]
    /\ models_to_try[4] \in embed.working
    /\ Cardinality(embed.failed) = 2

(***************************************************************************)
(* The settings objects, config/settings.py and                            *)
(* config/production_settings.py.  Weights are kept in hundredths (0.7 is  *)
(* 70); None is a weight the environment does not set.  pydantic runs a    *)
(* field validator on the values it is given, not on a default.            *)
(***************************************************************************)
SettingsClasses == {"Settings", "ProductionSettings"}

Weights == {-100, -1, 0, 30, 70, 100, 101, 120}

\* What the environment gives for one weight: nothing, or a number.
Unset == [set |-> FALSE, v |-> 0]

Given == {Unset} \cup [set : {TRUE}, v : Weights]

\* settings.py:46-47, production_settings.py:50-51, the defaults.
default_weight(field) ==
    IF field = "hybrid_search_weight_vector" THEN 70 ELSE 30

\* A validator that refuses the boundaries.
validate_weights_exclusive(cls, v) == 0 < v /\ v < 100

\* settings.py:67-73, production_settings.py:66-72: TRUE when the validator
\* returns v, FALSE when it raises ValueError.
validate_weights(cls, v) == 0 <= v /\ v <= 100

\* One field of the object under construction.
field_valid(cls, given) == ~given.set \/ validate_weights(cls, given.v)

field_value(field, given) ==
    IF given.set THEN given.v ELSE default_weight(field)

\* cls(): the settings object, or the ValidationError of its construction.
Settings ==
    /\ \E cls \in SettingsClasses, vector \in Given, keyword \in Given :
        config' =
            IF field_valid(cls, vector) /\ field_valid(cls, keyword)
            THEN [cls |-> cls, status |-> "loaded", given |-> <<vector, keyword>>,
                  vector |-> field_value("hybrid_search_weight_vector", vector),
                  keyword |-> field_value("hybrid_search_weight_keyword", keyword)]
            ELSE [cls |-> cls, status |-> "ValidationError",
                  given |-> <<vector, keyword>>, vector |-> 0, keyword |-> 0]
    /\ UNCHANGED <<searchVars, catalog, rec, indices, caller, req, conn,
                   embed, bulk, conversations, history>>

InitConfig ==
    /\ GOOGLE_CLOUD_INITIALIZED = FALSE
    /\ ELASTICSEARCH_INITIALIZED = FALSE
    /\ sync_client = None
    /\ started = FALSE
    /\ storeUp = TRUE
    /\ catalog = EmptyCatalog
    /\ compiled = NoCompile
    /\ response = NoResponse
    /\ store_log = <<>>
    /\ rec = IdleRec
    /\ indices = NoIndices
    /\ caller = [c \in Callers |-> IdleCaller]
    /\ remembered = NoCompile
    /\ IdleAux

NextConfig == Settings

SpecConfig == InitConfig /\ [][NextConfig]_vars

(***************************************************************************)
(* bulk_index_properties, elasticsearch_service.py:384-404.  async_bulk    *)
(* runs with raise_on_error=False: a document the store refuses is counted *)
(* in failed, and only a failure of the call itself raises.  The function  *)
(* is declared -> None and has no return statement; its value is written   *)
(* <<>> here.                                                              *)
(***************************************************************************)
\* The batches: documents with distinct property_id.
Batches ==
    {[k \in 1..Len(ids) |-> SampleCatalog[ids[k]]] :
        ids \in SeqsUpTo(Ids, Cardinality(Ids))}

\* 386-394, the actions' _id and _source.
written(properties, failed, cat) ==
    [i \in DOMAIN cat |->
        IF \E k \in DOMAIN properties \ failed : properties[k].property_id = i
        THEN (CHOOSE d \in {properties[k] : k \in DOMAIN properties \ failed} :
                d.property_id = i)
        ELSE cat[i]]

\* 396-404: what the caller gets back.
bulk_return(success, failed) == <<>>

bulk_index_properties ==
    /\ \E properties \in Batches :
        IF ~storeUp
        THEN /\ bulk' = [IdleBulk EXCEPT !.called = TRUE,
                                         !.properties = properties,
                                         !.outcome = "raised"]
             /\ UNCHANGED catalog
        ELSE \E failed \in SUBSET DOMAIN properties :
             /\ catalog' = written(properties, failed, catalog)
             /\ bulk' = [called |-> TRUE, properties |-> properties,
                         success |-> Len(properties) - Cardinality(failed),
                         failed |-> failed, outcome |-> "returned",
                         value |-> bulk_return(
                                     Len(properties) - Cardinality(failed),
                                     failed)]
    /\ UNCHANGED <<searchVars, rec, indices, caller, req, conn, embed, config,
                   conversations, history>>

InitBulk ==
    /\ GOOGLE_CLOUD_INITIALIZED = FALSE
    /\ ELASTICSEARCH_INITIALIZED = FALSE
    /\ sync_client = None
    /\ started = FALSE
    /\ storeUp \in BOOLEAN
    /\ catalog = EmptyCatalog
    /\ compiled = NoCompile
    /\ response = NoResponse
    /\ store_log = <<>>
    /\ rec = IdleRec
    /\ indices = NoIndices
    /\ caller = [c \in Callers |-> IdleCaller]
    /\ remembered = NoCompile
    /\ IdleAux

NextBulk ==
    \/ bulk_index_properties
    \/ store_changes

SpecBulk == InitBulk /\ [][NextBulk]_vars

(***************************************************************************)
(* The conversation log, elasticsearch_service.py:408-438.  The index is   *)
(* an append-only sequence of messages; a message's timestamp is the       *)
(* caller's, so the log need not be in timestamp order.  Both functions    *)
(* swallow a failure of the store.                                         *)
(***************************************************************************)
MaxMessages == 3

MaxTime == 2

Sessions == {"s1", "s2"}

Messages == [session_id : Sessions, timestamp : 1..MaxTime]

\* A save that hands the store's failure on.
save_outcome_raising(stored) == IF stored THEN "returned" ELSE "raised"

\* 416-417: the except branch logs and falls off the function's end.
save_outcome(stored) == "returned"

\* 408-417.  history.save is the last call: whether the store took the
\* message, and how the call ended.
save_conversation_message ==
    /\ Len(conversations) < MaxMessages
    /\ \E message_data \in Messages,
          stored \in IF storeUp THEN BOOLEAN ELSE {FALSE} :
        /\ conversations' = IF stored THEN Append(conversations, message_data)
                            ELSE conversations
        /\ history' = [history EXCEPT
                          !.save = [called |-> TRUE, stored |-> stored,
                                    outcome |-> save_outcome(stored)]]
    /\ UNCHANGED <<searchVars, catalog, rec, indices, caller, req, conn,
                   embed, config, bulk>>

\* The store: the positions of the messages a term query on session_id
\* matches.
term(session_id) ==
    {p \in DOMAIN conversations : conversations[p].session_id = session_id}

\* The store: the answers to search(query, sort timestamp desc, size), as
\* positions; messages of equal timestamp come in any order.
search_sorted_desc(matching, size) ==
    {h \in SeqsUpTo(matching, size) :
        /\ Len(h) = Min(size, Cardinality(matching))
        /\ \A j, k \in DOMAIN h :
              j < k => conversations[h[j]].timestamp >=
                       conversations[h[k]].timestamp
        /\ \A k \in DOMAIN h :
              \A p \in matching \ {h[j] : j \in DOMAIN h} :
                  conversations[p].timestamp <= conversations[h[k]].timestamp}

\* A history handed over as the store sorted it.
reversed_not(messages) == messages

\* 434, list(reversed(messages))
reversed(messages) ==
    [k \in 1..Len(messages) |-> messages[Len(messages) - k + 1]]

\* 419-438
get_conversation_history ==
    /\ \E session_id \in Sessions, limit \in 0..MaxLimit :
        \/ history' = [IdleHistory EXCEPT
                          !.called = TRUE, !.session_id = session_id,
                          !.limit = limit, !.seen = Len(conversations),
                          !.outcome = "failed", !.save = history.save]
        \/ /\ storeUp
           /\ \E hits \in search_sorted_desc(term(session_id), limit) :
               history' =
                   [called |-> TRUE, session_id |-> session_id,
                    limit |-> limit, seen |-> Len(conversations),
                    hits |-> hits, outcome |-> "answered",
                    result |-> reversed([k \in 1..Len(hits) |->
                                            conversations[hits[k]]]),
                    save |-> history.save]
    /\ UNCHANGED <<searchVars, catalog, rec, indices, caller, req, conn,
                   embed, config, bulk, conversations>>

InitHistory ==
    /\ GOOGLE_CLOUD_INITIALIZED = FALSE
    /\ ELASTICSEARCH_INITIALIZED = FALSE
    /\ sync_client = None
    /\ started = FALSE
    /\ storeUp \in BOOLEAN
    /\ catalog = EmptyCatalog
    /\ compiled = NoCompile
    /\ response = NoResponse
    /\ store_log = <<>>
    /\ rec = IdleRec
    /\ indices = NoIndices
    /\ caller = [c \in Callers |-> IdleCaller]
    /\ remembered = NoCompile
    /\ IdleAux

NextHistory ==
    \/ save_conversation_message
    \/ get_conversation_history
    \/ store_changes

SpecHistory == InitHistory /\ [][NextHistory]_vars

\* C17: every result of a search answer carries a mode label, the label of
\* the one strategy the answer's search_type names; the results are at most
\* the requested limit, and total is their number.
C17_ResultsLabelledAndCounted ==
    (response.kind = "search" /\ response.status = 200) =>
        /\ \A k \in 1..Len(response.results) :
              response.results[k].search_type =
                  "elasticsearch_" \o response.search_type \o "_search"
        /\ Len(response.results) <= response.limit
        /\ response.total = Len(response.results)

\* A semantic search answered with as many results as the limit allows.
C17_Witness ==
    /\ response.kind = "search"
    /\ response.status = 200
    /\ response.search_type = "semantic"
    /\ response.limit = 2
    /\ Len(response.results) = 2
    /\ Cardinality(Present(catalog)) > 2

(***************************************************************************)
(* Claims on repeated compilation, under SpecCompile: remembered is any    *)
(* earlier compilation of the run, compiled the latest.                    *)
(***************************************************************************)
SameInputs ==
    /\ remembered.query = compiled.query
    /\ remembered.search_type = compiled.search_type
    /\ remembered.ai = compiled.ai

KeywordOnly(c) ==
    c.search_type = "keyword" =>
        c.es_query =
            [should |-> <<MultiMatch(c.query),
                          Match("combined_text", c.query, 15)>>,
             minimum_should_match |-> 1]

BaseClauses(query) == <<MultiMatch(query), Match("combined_text", query, 15)>>

SemanticCompiled == compiled.search_type = "semantic" /\ compiled.ai

HybridCompiled == compiled.search_type = "hybrid" /\ compiled.ai

\* The clauses a compilation holds after the two base clauses.
Added == SubSeq(compiled.es_query.should, 3, Len(compiled.es_query.should))

\* C19 as stated: a semantic compilation with the AI subsystem available
\* adds exactly two clauses, target_audience at 2.5 and special_features at
\* 1.5.
C19_SemanticAddsTwo ==
    SemanticCompiled =>
        compiled.es_query.should =
            BaseClauses(compiled.query) \o
            <<Match("target_audience", compiled.query, 25),
              Match("special_features", compiled.query, 15)>>

\* C19: a semantic compilation with the AI subsystem available adds exactly
\* three clauses to the base clauses: target_audience at 2.5,
\* special_features at 1.5 and platform_focus at 1.2.
C19_SemanticAddsThree ==
    SemanticCompiled =>
        compiled.es_query.should =
            BaseClauses(compiled.query) \o
            <<Match("target_audience", compiled.query, 25),
              Match("special_features", compiled.query, 15),
              Match("platform_focus", compiled.query, 12)>>

\* A semantic compilation of "villa" with the AI subsystem available.
C19_Witness ==
    /\ SemanticCompiled
    /\ compiled.used = "semantic"
    /\ compiled.query = "villa"
    /\ Len(Added) = 3

\* C20: a hybrid compilation with the AI subsystem available adds exactly
\* two clauses to the base clauses, target_audience at 2.0 and
\* special_features at 1.5; each is on a field the semantic branch adds a
\* clause on, at a boost no higher than the semantic one.
C20_HybridAddsTwoNoHigher ==
    HybridCompiled =>
        /\ compiled.es_query.should =
              BaseClauses(compiled.query) \o
              <<Match("target_audience", compiled.query, 20),
                Match("special_features", compiled.query, 15)>>
        /\ \A k \in DOMAIN Added :
              \E j \in DOMAIN semantic_clauses(compiled.query) :
                  /\ semantic_clauses(compiled.query)[j].field = Added[k].field
                  /\ semantic_clauses(compiled.query)[j].boost10 >=
                        Added[k].boost10

\* A hybrid compilation of "2 bhk" with the AI subsystem available.
C20_Witness ==
    /\ HybridCompiled
    /\ compiled.used = "hybrid"
    /\ compiled.query = "2 bhk"
    /\ Len(Added) = 2

(***************************************************************************)
(* Claims on the stats handler, under SpecStats.                           *)
(***************************************************************************)
StatsAnswered == response.kind = "stats" /\ response.status = 200

\* C12: a stats answer holds at most 20 values per facet, each of them the
\* field's value in one of the at most 100 sampled documents.
C12_FacetsCappedAndSampled ==
    StatsAnswered =>
        /\ Cardinality(response.sample) <= SampleSize
        /\ response.sample \subseteq Present(catalog)
        /\ Cardinality(response.property_types) <= FacetCap
        /\ Cardinality(response.platforms) <= FacetCap
        /\ Cardinality(response.cities) <= FacetCap
        /\ response.property_types \subseteq
              Values(response.sample, "property_type")
        /\ response.platforms \subseteq Values(response.sample, "platform_name")
        /\ response.cities \subseteq Values(response.sample, "city")

\* The sample held more than 20 property types and left a listing out.
C12_Witness ==
    /\ StatsAnswered
    /\ Cardinality(Values(response.sample, "property_type")) > FacetCap
    /\ Cardinality(response.property_types) = FacetCap
    /\ response.sample # Present(catalog)
    /\ response.cities # Values(Present(catalog), "city")

\* C13: the total of a stats answer is the store's count, whatever the
\* sample held.
C13_TotalIsCount ==
    StatsAnswered =>
        /\ response.total = response.counted
        /\ response.total = Cardinality(Present(catalog))

\* The catalog is larger than the sample, and the total says so.
C13_Witness ==
    /\ StatsAnswered
    /\ response.total > SampleSize
    /\ Cardinality(response.sample) = SampleSize

(***************************************************************************)
(* Claims on the settings objects, under SpecConfig.                       *)
(***************************************************************************)
Inside(given) == ~given.set \/ (0 <= given.v /\ given.v <= 100)

\* C14: a settings object is refused exactly when the vector weight or the
\* keyword weight it is given lies outside [0, 1]; 0.0 and 1.0 are accepted,
\* and the object built holds the weights given.
C14_WeightsValidated ==
    config.cls # None =>
        /\ config.status = "loaded" <=>
              (Inside(config.given[1]) /\ Inside(config.given[2]))
        /\ config.status # "loaded" => config.status = "ValidationError"
        /\ config.status = "loaded" =>
              /\ config.given[1].set => config.vector = config.given[1].v
              /\ config.given[2].set => config.keyword = config.given[2].v
              /\ 0 <= config.vector /\ config.vector <= 100
              /\ 0 <= config.keyword /\ config.keyword <= 100

\* Both boundary values were given and accepted.
C14_Witness ==
    /\ config.status = "loaded"
    /\ config.given[1] = [set |-> TRUE, v |-> 0]
    /\ config.given[2] = [set |-> TRUE, v |-> 100]

(***************************************************************************)
(* Claims on bulk indexing, under SpecBulk.                                *)
(***************************************************************************)
PartialFailure ==
    /\ bulk.called
    /\ bulk.failed # {}
    /\ bulk.failed # DOMAIN bulk.properties

Committed ==
    \A k \in DOMAIN bulk.properties \ bulk.failed :
        catalog[bulk.properties[k].property_id] = bulk.properties[k]

\* C15: a bulk write of which some documents fail does not raise, commits
\* the documents that succeeded, and hands the caller the success count and
\* the failed items.
C15_PartialFailureReported ==
    PartialFailure =>
        /\ bulk.outcome = "returned"
        /\ Committed
        /\ bulk.value = <<bulk.success, bulk.failed>>

(***************************************************************************)
(* Claims on the conversation log, under SpecHistory.  The log only grows: *)
(* what a call saw is the log's first history.seen messages.               *)
(***************************************************************************)
SeenOfSession ==
    {p \in 1..history.seen :
        conversations[p].session_id = history.session_id}

Picked == {history.hits[k] : k \in DOMAIN history.hits}

\* The result is the session's own, its limit most recent, oldest first.
RecentOldestFirst ==
    /\ Len(history.result) = Min(history.limit, Cardinality(SeenOfSession))
    /\ Len(history.hits) = Len(history.result)
    /\ Cardinality(Picked) = Len(history.hits)
    /\ Picked \subseteq SeenOfSession
    /\ \A k \in DOMAIN history.result :
          /\ history.result[k].session_id = history.session_id
          /\ history.result[k] =
                conversations[history.hits[Len(history.hits) - k + 1]]
          /\ \A p \in SeenOfSession \ Picked :
                conversations[p].timestamp <= history.result[k].timestamp
    /\ \A j, k \in DOMAIN history.result :
          j < k => history.result[j].timestamp <= history.result[k].timestamp

\* C16 as stated: every call returns the session's limit most recent
\* messages, oldest first.
C16_AlwaysRecentOldestFirst == history.called => RecentOldestFirst

\* C16: a call the store answers returns only messages of the session, its
\* limit most recent by timestamp, oldest first; a call the store fails
\* returns the empty list.
C16_RecentOldestFirstWhenAnswered ==
    history.called =>
        /\ history.outcome = "answered" => RecentOldestFirst
        /\ history.outcome # "answered" =>
              history.outcome = "failed" /\ history.result = <<>>

\* The session held three messages logged out of timestamp order, and the
\* call returned the two most recent, oldest first.
C16_Witness ==
    /\ history.outcome = "answered"
    /\ history.limit = 2
    /\ Cardinality(SeenOfSession) = 3
    /\ conversations[1].timestamp > conversations[2].timestamp
    /\ Len(history.result) = 2
    /\ history.result[1].timestamp < history.result[2].timestamp

(***************************************************************************)
(* Claims on the client handle and the request steps, under SpecSearch.    *)
(***************************************************************************)
\* C21: the shared client handle and the store-availability flag change in
\* the startup step only: no request handler creates or replaces the handle,
\* and the flag startup set stays as it is while requests are served.
C21_ConnectionOnlyAtStartup ==
    [][(\/ sync_client' # sync_client
        \/ ELASTICSEARCH_INITIALIZED' # ELASTICSEARCH_INITIALIZED)
          => (~started /\ started')]_vars

\* A search answered after startup, through the handle startup created.
C21_Witness ==
    /\ started
    /\ ELASTICSEARCH_INITIALIZED
    /\ sync_client = "client"
    /\ response.kind = "search"
    /\ response.status = 200
    /\ store_log = <<"search">>

\* C24: a search or stats request served while the store-initialised flag
\* is false is answered 503, and the step builds no query, creates no client
\* and calls the store not at all.
C24_RejectedWithoutEffect ==
    [][(~ELASTICSEARCH_INITIALIZED /\ (search_properties \/ get_stats)) =>
            /\ response'.status = 503
            /\ compiled' = compiled
            /\ sync_client' = sync_client
            /\ store_log' = <<>>]_vars

\* Startup built the client but its ping failed; the store is back, and a
\* search is refused all the same.
C24_Witness ==
    /\ started
    /\ ~ELASTICSEARCH_INITIALIZED
    /\ sync_client = "client"
    /\ storeUp
    /\ response.kind = "search"
    /\ response.status = 503
    /\ store_log = <<>>

(***************************************************************************)
(* Claims on the steps of one search request, under SpecSteps.             *)
(***************************************************************************)
IsPrefix(s, t) == Len(s) <= Len(t) /\ s = SubSeq(t, 1, Len(s))

\* C22: the steps of a search request come in the order base clause,
\* augmentation, dispatch; the store's search is called at most once, after
\* the other two steps and with the completely built query; a request
\* refused before dispatch has sent nothing.
C22_StepsInOrderOneDispatch ==
    /\ IsPrefix(req.trail, Steps)
    /\ Len(req.sent) <= 1
    /\ Len(store_log) = Len(req.sent)
    /\ req.sent # <<>> =>
          /\ req.trail = Steps
          /\ req.sent[1] = compile(req.query, req.search_type,
                                    GOOGLE_CLOUD_INITIALIZED)
    /\ req.pc \in {"base", "augmentation", "dispatch"} => req.sent = <<>>
    /\ req.status \in {422, 503} => req.sent = <<>> /\ req.trail = <<>>

\* A semantic request with the AI subsystem available, dispatched and
\* answered: the store got the five-clause query, once.
C22_Witness ==
    /\ req.pc = "done"
    /\ req.status = 200
    /\ req.search_type = "semantic"
    /\ GOOGLE_CLOUD_INITIALIZED
    /\ Len(req.sent) = 1
    /\ Len(req.sent[1].should) = 5

(***************************************************************************)
(* Claims on connect, under SpecConnect.                                   *)
(***************************************************************************)
\* C25: connect tries the local default only after the configured endpoint
\* failed and only when the configured URL is not the local default; when
\* the fallback answers, connect returns with the client bound to the local
\* default; when it fails or is not tried, the error of the configured
\* endpoint is raised.
C25_FallbackAfterConfigured ==
    /\ conn.tried \in {<<>>, <<conn.es_url>>, <<conn.es_url, LocalDefault>>}
    /\ Len(conn.tried) = 2 =>
          /\ conn.es_url # LocalDefault
          /\ conn.errors # <<>>
          /\ conn.errors[1] = "configured"
    /\ conn.pc = "returned" =>
          /\ conn.client = conn.tried[Len(conn.tried)]
          /\ Len(conn.tried) = 2 => conn.client = LocalDefault
          /\ Len(conn.tried) = 1 => conn.errors = <<>>
    /\ conn.pc = "raised" =>
          /\ conn.raised = "configured"
          /\ conn.es_url = LocalDefault =>
                conn.tried = <<conn.es_url>> /\ conn.errors = <<"configured">>
          /\ conn.es_url # LocalDefault =>
                /\ Len(conn.tried) = 2
                /\ conn.errors = <<"configured", "fallback">>
    /\ conn.pc # "raised" => conn.raised = None

\* The configured endpoint failed and the fallback answered.
C25_Witness ==
    /\ conn.pc = "returned"
    /\ conn.es_url = "https://search.example.com:9243"
    /\ conn.tried = <<conn.es_url, LocalDefault>>
    /\ conn.errors = <<"configured">>
    /\ conn.client = LocalDefault

(***************************************************************************)
(* Claims on unrecognised modes, under SpecSteps.                          *)
(***************************************************************************)
UnknownMode == req.pc # "idle" /\ req.search_type \notin KnownModes

\* C26: a search request whose mode is none of keyword, semantic, hybrid is
\* not refused for its mode; the query sent for it is the two base clauses
\* whatever the AI flag, and the answer and each of its results carry the
\* mode string as given.
C26_UnknownModeServedAsKeyword ==
    UnknownMode =>
        /\ req.status = 422 =>
              (Len(req.query) < 1 \/ req.limit < 1 \/ req.limit > 50)
        /\ req.sent # <<>> =>
              req.sent[1] =
                  [should |-> <<MultiMatch(req.query),
                                Match("combined_text", req.query, 15)>>,
                   minimum_should_match |-> 1]
        /\ req.status = 200 =>
              /\ response.search_type = req.search_type
              /\ \A k \in 1..Len(response.results) :
                    response.results[k].search_type =
                        "elasticsearch_" \o req.search_type \o "_search"

\* A fuzzy request answered with results while the AI subsystem is available.
C26_Witness ==
    /\ UnknownMode
    /\ GOOGLE_CLOUD_INITIALIZED
    /\ req.status = 200
    /\ Len(req.sent) = 1
    /\ Len(response.results) >= 1
    /\ response.search_type = "fuzzy"

(***************************************************************************)
(* Claims on store failures of the conversation log, under SpecHistory.    *)
(***************************************************************************)
\* C27: neither conversation-log operation raises when the store fails: a
\* save returns normally whether or not the store took the message, and a
\* message it did not take is in the log nowhere; a history call the store
\* fails returns the empty list, the result of a session without messages.
C27_LogFailuresSwallowed ==
    [][/\ history'.save.called => history'.save.outcome = "returned"
       /\ (history'.save # history.save /\ ~history'.save.stored) =>
             conversations' = conversations
       /\ history'.called =>
             /\ history'.outcome \in {"answered", "failed"}
             /\ history'.outcome = "failed" => history'.result = <<>>]_vars

\* A save the store did not take, and a failed history call on a session
\* that holds a message.
C27_Witness ==
    /\ history.save.called
    /\ ~history.save.stored
    /\ history.called
    /\ history.outcome = "failed"
    /\ history.result = <<>>
    /\ Cardinality(SeenOfSession) >= 1

====
